---- MODULE Spec2Model ----
(***************************************************************************)
(* A model of gf.TiledLayer (src/src/input/InputManager.js, lines 86-436): *)
(* the viewport-relative tile renderer.  The layer keeps a grid of live    *)
(* tile sprites (this.tiles), a pool of released sprites (this._tilePool), *)
(* the rendered rectangle (this._rendered), the four buffered flags        *)
(* (this._buffered) and the pan accumulator (this._panDelta).              *)
(* renderTiles and pan are the two host-facing operations; each is one     *)
(* action that runs the whole handler.                                     *)
(* _getInteractive and the position formula of moveTileSprite, which read  *)
(* no state of the layer, have a specification each, over their arguments. *)
(* gf.EventEmitter (src/src/utils/EventEmitter.js), which the layer mixes  *)
(* in, has its own specification over on, once, off and emit.              *)
(* Two more specifications add a caller to the two operations: a pan       *)
(* during which a collaborator of moveTileSprite raises, and a pan by an   *)
(* offset that is panned back, as the Shake effect does.                   *)
(* Three objects beside the layer have a specification each over the      *)
(* calls of their host: the Shake effect (src/unnamed/part_000), the       *)
(* TextureFont (src/src/font/TextureFont.js) and the state registry of the *)
(* Game (src/src/game/Game.js).                                            *)
(***************************************************************************)
EXTENDS Integers, Sequences, FiniteSets, TLC

(***************************************************************************)
(* Bounds of the model.                                                    *)
(***************************************************************************)
\* parent.size.x / parent.size.y: the size of the map in tiles
MapW == 2
MapH == 2
\* parent.scaledTileSize.x / .y: the size of a tile in pixels
TileW == 2
TileH == 2
\* how many tiles the rendered rectangle may travel outside of the map
MaxOut == 3

\* the sprites the layer may create
MaxSprites == 6
\* the calls the host makes on the layer
MaxCalls == 4

\* the pan deltas the host passes: along x a pixel and a pixel more than a whole
\* tile, either way, and a whole tile to the right; along y a pixel or a whole
\* tile down; and one diagonal move
Deltas ==
    {<<dx, 0>> : dx \in {0 - (TileW + 1), 0 - 1, 1, TileW, TileW + 1}}
    \cup {<<0, dy>> : dy \in {1, TileH}}
    \cup {<<0 - 1, 0 - TileH>>}
\* the arguments the host passes to renderTiles: <<startX, numX>> and <<startY, numY>>
ArgsX == {<<0 - 1, MapW + 1>>, <<0, 1>>, <<1, MapW>>}
ArgsY == {<<0, MapH>>, <<0, 0>>}
\* parent.position.x / .y at the time of a renderTiles call
PositionsX == {0 - (TileW + 1), 0}
PositionsY == {0, TileH + 1}
\* the renderTiles calls of the host, <<<<startX, numX>>, <<startY, numY>>, posX, posY>>:
\* the camera is away from the origin only when the whole map is asked for, and
\* then on one axis
Renders ==
    {r \in ArgsX \X ArgsY \X PositionsX \X PositionsY :
        \/ r[3] = 0 /\ r[4] = 0
        \/ r[1] = <<0 - 1, MapW + 1>> /\ r[2] = <<0, MapH>> /\ (r[3] = 0 \/ r[4] = 0)}

(***************************************************************************)
(* Values.                                                                 *)
(***************************************************************************)
\* the JavaScript null stored in this.tiles[x][y] when a sprite moved away
Null == 0
\* the JavaScript undefined read from an index outside of this.tileIds
Undefined == 0 - 1

\* layer.data: row-major tile ids, 0 is the empty tile
TileIdsData == [i \in 0..(MapW * MapH - 1) |-> IF i % 3 = 2 THEN 0 ELSE 1 + (i % 3)]


\* the last global tile id that belongs to a tileset
LastGid == 3

\* the last global tile id the tileset has a texture for
LastTexturedGid == 2

\* the value of set.getTileTexture for an id the tileset has no texture for
NoTexture == 0

\* this.parent.getTileset(tileId): FALSE when no tileset holds the id
getTileset(tileId) == tileId # Undefined /\ tileId >= 1 /\ tileId <= LastGid

\* set.getTileTexture(tileId): a texture is identified by the id it shows
getTileTexture(tileId) == IF tileId <= LastTexturedGid THEN tileId ELSE NoTexture

\* set.getTileProperties(tileId): the tiles of id 1 are collidable walls, the
\* tiles of id 2 set interactive to false on the tile itself
getTileProperties(tileId) ==
    [isCollidable |-> tileId = 1,
     interactive |-> IF tileId = 2 THEN "false" ELSE "undefined",
     interactiveTiles |-> "undefined"]

\* set.properties, this.properties and this.parent.properties
SetProperties == [interactive |-> "undefined", interactiveTiles |-> "true"]
LayerProperties == [interactive |-> "undefined", interactiveTiles |-> "undefined"]
MapProperties == [interactive |-> "undefined", interactiveTiles |-> "undefined"]

\* the orientation of an isometric map
Isometric_on == TRUE

\* this.parent.orientation === 'isometric': the map of the layer is orthogonal
Isometric == FALSE

\* this.parent.tileSize, set.tileSize and set.tileoffset, as <<x, y>>
MapTileSize == <<4, 2>>
SetTileSize == <<4, 2>>
TileOffset == <<1, 0>>

\* the JavaScript % operator on integers: the sign follows the dividend
JsRem(a, b) == IF a >= 0 THEN a % b ELSE 0 - ((0 - a) % b)

(***************************************************************************)
(* The state of the layer, and the observers of the last call.             *)
(***************************************************************************)
VARIABLES
    layerData,    \* this.tileIds: the row-major tile ids the layer was built with
    tiles,        \* this.tiles: <<x, y>> -> sprite or Null, on the keys that exist
    negX,         \* the negative x keys of this.tiles, in insertion order
    negY,         \* the keys <<x, y>> with y < 0, in insertion order
    children,     \* the number of sprites added with addChild: sprites are 1..children
    sprites,      \* sprite -> [texture, visible, physics, interactive, handlers, position]
    _tilePool,    \* this._tilePool
    _rendered,    \* this._rendered
    _buffered,    \* this._buffered
    _panDelta,    \* this._panDelta
    call,         \* the last call made on the layer and its arguments
    shifts,       \* iterations of the four threshold loops of the last pan
    overwrote,    \* the last call stored a sprite over another live sprite
    repeat,       \* the last call repeats the call before it
    everRendered, \* renderTiles has been called
    run,          \* the run of pan(TileW, 0) calls since the last renderTiles, the
                  \* rectangle that renderTiles left, and the accumulator it left
                  \* plus the deltas of the pan calls since
    calls,        \* the number of calls the host has made
    peakLive,     \* the largest number of sprites that were live at the same time
    origin,       \* the layer before the last pan by an offset that is to be panned
                  \* back: rectangle, accumulator, flags and live coordinates
    probe,        \* the arguments and the result of a call of a function of the
                  \* layer that reads no state of the layer
    _events,      \* this._events: type -> undefined, a function or an array of functions
    wrappers,     \* the functions g that once() created, in order: the type and the
                  \* listener of each, and how often it ran the listener
    due,          \* the functions g that were registered when an emit of their type
                  \* started
    emitted,      \* the last emit of the host: the emits it started, with the listeners
                  \* registered at the start of each, and the functions it ran
    ecall,        \* the last call made on the emitter
    ecalls,       \* the number of calls the host has made on the emitter
    effect,       \* a Shake effect: done, duration, direction, offset and cb, and the
                  \* sum of the offsets it has passed to parent.pan
    fxcall,       \* the last call made on the effect
    fxcalls,      \* the number of calls the host has made on the effect
    font,         \* a TextureFont: text, dirty, children, sprites, and of each child
                  \* its texture and whether it is visible; the sprites the last
                  \* update got for the characters, and whether it raised
    fontcall,     \* the last call made on the font
    fontcalls,    \* the number of update calls the host has made on the font
    game,         \* a Game: states (the names registered, when this.states is an
                  \* object), activeState, the children of the stage and the states
                  \* that were enabled and not disabled since
    gamecall,     \* the last call made on the game, and whether it raised
    gamecalls     \* the number of calls the host has made on the game

layerVars == <<tiles, negX, negY, children, sprites, _tilePool, _rendered, _buffered, _panDelta>>
vars == <<layerData, tiles, negX, negY, children, sprites, _tilePool, _rendered, _buffered, _panDelta,
          call, shifts, overwrote, repeat, everRendered, run, calls, peakLive, origin, probe,
          _events, wrappers, due, emitted, ecall, ecalls,
          effect, fxcall, fxcalls, font, fontcall, fontcalls, game, gamecall, gamecalls>>
emitterVars == <<_events, wrappers, due, emitted, ecall, ecalls>>
\* the objects beside the layer and its emitter
effectVars == <<effect, fxcall, fxcalls>>
fontVars == <<font, fontcall, fontcalls>>
gameVars == <<game, gamecall, gamecalls>>
otherVars == <<effectVars, fontVars, gameVars>>

\* this.tileIds[id]
tileIds(id) == IF id \in DOMAIN layerData THEN layerData[id] ELSE Undefined

\* no iteration of a threshold loop yet
NoShifts == [left |-> 0, right |-> 0, up |-> 0, down |-> 0]

\* the layer as one value, for the operators that model the methods
Layer == [tiles |-> tiles, negX |-> negX, negY |-> negY, children |-> children,
          sprites |-> sprites, pool |-> _tilePool, rendered |-> _rendered,
          buffered |-> _buffered, panDelta |-> _panDelta,
          shifts |-> NoShifts, overwrote |-> FALSE, peak |-> peakLive]

(***************************************************************************)
(* Helpers on the grid.                                                    *)
(***************************************************************************)
\* this.tiles[x] && this.tiles[x][y]
HasTile(s, x, y) == <<x, y>> \in DOMAIN s.tiles /\ s.tiles[<<x, y>>] # Null

\* the coordinates that hold a live sprite
LiveCoords(t) == {k \in DOMAIN t : t[k] # Null}

\* the live sprites
LiveSprites(t) == {t[k] : k \in LiveCoords(t)}

\* the elements of a sequence
Range(q) == {q[i] : i \in DOMAIN q}

RECURSIVE Ascending(_)
\* a finite set of integers as an ascending sequence
Ascending(S) ==
    IF S = {} THEN <<>>
    ELSE LET m == CHOOSE a \in S : \A b \in S : a <= b
         IN <<m>> \o Ascending(S \ {m})

\* for(var x in this.tiles): integer keys ascending, then the others as inserted
XKeys(s) == Ascending({k[1] : k \in {j \in DOMAIN s.tiles : j[1] >= 0}}) \o s.negX

\* for(var y in this.tiles[x]): integer keys ascending, then the others as inserted
YKeys(s, x) ==
    Ascending({k[2] : k \in {j \in DOMAIN s.tiles : j[1] = x /\ j[2] >= 0}})
    \o LET ks == SelectSeq(s.negY, LAMBDA k : k[1] = x)
       IN [i \in 1..Len(ks) |-> ks[i][2]]

\* this._updateRenderSq()
_updateRenderSq(r) ==
    [r EXCEPT !.left = r.x, !.right = r.x + r.width - 1,
              !.top = r.y, !.bottom = r.y + r.height - 1]

(***************************************************************************)
(* The methods of the layer, as operators from a layer value to the layer  *)
(* value the method leaves.                                                *)
(***************************************************************************)
\* the release of the no-tileset branch without the push: the sprite is dropped
ReleaseFrom_noPush(s, x, y) ==
    LET t == s.tiles[<<x, y>>]
    IN [s EXCEPT !.tiles[<<x, y>>] = Null,
                 !.sprites[t].visible = FALSE]

\* this._tilePool.push(t) after t.visible = false, for the sprite at <<x, y>>,
\* and this.tiles[x][y] = null
ReleaseFrom(s, x, y) ==
    LET t == s.tiles[<<x, y>>]
    IN [s EXCEPT !.tiles[<<x, y>>] = Null,
                 !.sprites[t].visible = FALSE,
                 !.pool = Append(s.pool, t)]

\* this.tiles[toTileX][toTileY] = tile, creating the keys that do not exist
StoreTile(s, x, y, tile) ==
    [s EXCEPT !.tiles = (<<x, y>> :> tile) @@ s.tiles,
              !.peak = LET live == Cardinality(LiveSprites((<<x, y>> :> tile) @@ s.tiles))
                       IN IF live > s.peak THEN live ELSE s.peak,
              !.negX = IF x < 0 /\ x \notin Range(s.negX) THEN Append(s.negX, x) ELSE s.negX,
              !.negY = IF y < 0 /\ <<x, y>> \notin DOMAIN s.tiles
                       THEN Append(s.negY, <<x, y>>) ELSE s.negY,
              !.overwrote = s.overwrote \/ (HasTile(s, x, y) /\ s.tiles[<<x, y>>] # tile)]

\* a JavaScript value of a property read as a condition
Truthy(v) == v = "true"

\* _getInteractive as a merge: true when any of the sources sets a flag
_getInteractive_merge(hasSet, setProps, o, layerProps, mapProps) ==
    LET Value(v) == Truthy(v.interactive) \/ Truthy(v.interactiveTiles)
    IN Value(o) \/ (hasSet /\ Value(setProps)) \/ Value(layerProps) \/ Value(mapProps)

\* _getInteractive(set, o): hasSet is the truthiness of set, setProps is
\* set.properties, layerProps this.properties, mapProps this.parent.properties
_getInteractive(hasSet, setProps, o, layerProps, mapProps) ==
    LET Defines(p) == p.interactive # "undefined" \/ p.interactiveTiles # "undefined"
        Value(v) == Truthy(v.interactive) \/ Truthy(v.interactiveTiles)
    IN IF Defines(o) THEN Value(o)
       ELSE IF hasSet /\ Defines(setProps) THEN Value(setProps)
       ELSE IF Defines(layerProps) THEN Value(layerProps)
       ELSE IF Defines(mapProps) THEN Value(mapProps)
       ELSE FALSE

\* the position with whole tile sizes in the place of the halves
TilePosition_noHalf(iso, toTileX, toTileY, tileSize, setTileSize, tileoffset) ==
    IF iso
    THEN <<(toTileX * tileSize[1]) - (toTileY * tileSize[1])
             + (tileSize[1] - setTileSize[1]) + tileoffset[1],
           (toTileY * (tileSize[2] \div 2)) + (toTileX * (tileSize[2] \div 2))
             + (tileSize[2] - setTileSize[2]) + tileoffset[2]>>
    ELSE <<(toTileX * tileSize[1]) + tileoffset[1],
           (toTileY * tileSize[2]) + tileoffset[2]>>

\* the position moveTileSprite gives the tile at (toTileX, toTileY); the tile
\* sizes are even, so that the halves are whole numbers
TilePosition(iso, toTileX, toTileY, tileSize, setTileSize, tileoffset) ==
    IF iso
    THEN <<(toTileX * (tileSize[1] \div 2)) - (toTileY * (tileSize[1] \div 2))
             + (tileSize[1] - setTileSize[1]) + tileoffset[1],
           (toTileY * (tileSize[2] \div 2)) + (toTileX * (tileSize[2] \div 2))
             + (tileSize[2] - setTileSize[2]) + tileoffset[2]>>
    ELSE <<(toTileX * tileSize[1]) + tileoffset[1],
           (toTileY * tileSize[2]) + tileoffset[2]>>

\* new gf.Tile(texture): no physics body, not interactive, no callbacks
NewTile(texture) ==
    [texture |-> texture, visible |-> TRUE, physics |-> FALSE,
     interactive |-> FALSE, handlers |-> FALSE, position |-> <<0, 0>>]

\* moveTileSprite(fromTileX, fromTileY, toTileX, toTileY)
moveTileSprite(s, fromTileX, fromTileY, toTileX, toTileY) ==
    LET id == toTileX + (toTileY * MapW)
        tileId == tileIds(id)
        set == getTileset(tileId)
        texture == getTileTexture(tileId)
        props == getTileProperties(tileId)
        interactive == _getInteractive(set, SetProperties, props,
                                       LayerProperties, MapProperties)
        position == TilePosition(Isometric, toTileX, toTileY,
                                 MapTileSize, SetTileSize, TileOffset)
        hasFrom == HasTile(s, fromTileX, fromTileY)
    IN IF ~set
       THEN \* no tileset: the "from" tile is put back in the pool
            IF hasFrom THEN ReleaseFrom(s, fromTileX, fromTileY) ELSE s
       ELSE LET \* the tile to move, or one popped from the pool, or a new one
                tile == IF hasFrom THEN s.tiles[<<fromTileX, fromTileY>>]
                        ELSE IF Len(s.pool) > 0 THEN s.pool[Len(s.pool)]
                        ELSE s.children + 1
                s1 == IF hasFrom THEN [s EXCEPT !.tiles[<<fromTileX, fromTileY>>] = Null]
                      ELSE IF Len(s.pool) > 0
                      THEN [s EXCEPT !.pool = SubSeq(s.pool, 1, Len(s.pool) - 1)]
                      ELSE [s EXCEPT !.children = s.children + 1]
                old == IF tile \in DOMAIN s1.sprites THEN s1.sprites[tile]
                       ELSE NewTile(texture)
                \* enablePhysics if collidable, setTexture, setPosition,
                \* setInteractive, visible = true, the callbacks if interactive
                s2 == [s1 EXCEPT !.sprites =
                          (tile :> [texture |-> texture, visible |-> TRUE,
                                    physics |-> old.physics \/ props.isCollidable,
                                    interactive |-> interactive,
                                    handlers |-> old.handlers \/ interactive,
                                    position |-> position]) @@ s1.sprites]
            IN StoreTile(s2, toTileX, toTileY, tile)

RECURSIVE ClearKeys(_, _)
\* the body of the loops of clearTiles over the keys ks, in order
ClearKeys(s, ks) ==
    IF ks = <<>> THEN s
    ELSE LET k == Head(ks)
             tile == s.tiles[k]
             s1 == IF tile # Null
                   THEN [s EXCEPT !.sprites[tile].visible = FALSE,
                                  !.sprites[tile].physics = FALSE,
                                  !.pool = Append(s.pool, tile)]
                   ELSE s
         IN ClearKeys(s1, Tail(ks))

RECURSIVE KeysInOrder(_, _)
\* the keys <<x, y>> of this.tiles in the order the loops of clearTiles visit them
KeysInOrder(s, xs) ==
    IF xs = <<>> THEN <<>>
    ELSE LET x == Head(xs)
             ys == YKeys(s, x)
         IN [i \in 1..Len(ys) |-> <<x, ys[i]>>] \o KeysInOrder(s, Tail(xs))

\* clearTiles() without the push: the keys are deleted, the sprites forgotten
clearTiles_noPush(s) ==
    [s EXCEPT !.tiles = <<>>, !.negY = <<>>]

\* clearTiles(): every sprite goes to the pool, every y key is deleted
clearTiles(s) ==
    LET s1 == ClearKeys(s, KeysInOrder(s, XKeys(s)))
    IN [s1 EXCEPT !.tiles = <<>>, !.negY = <<>>]

RECURSIVE RenderRect(_, _, _, _, _, _)
\* the two loops of renderTiles: x from startX below endX, y from startY below endY
RenderRect(s, x, y, startY, endX, endY) ==
    IF ~(x < endX) THEN s
    ELSE IF ~(y < endY) THEN RenderRect(s, x + 1, startY, startY, endX, endY)
    ELSE RenderRect(moveTileSprite(s, x, y, x, y), x, y + 1, startY, endX, endY)

\* renderTiles with the accumulator reset to the modulo, which is never negative
renderTiles_modulo(s, startX0, startY0, numX, numY, posX, posY) ==
    LET s1 == clearTiles(s)
        startX == IF startX0 < 0 THEN 0 ELSE startX0
        startY == IF startY0 < 0 THEN 0 ELSE startY0
        endX == IF startX + numX <= MapW THEN startX + numX ELSE MapW - startX
        endY == IF startY + numY <= MapH THEN startY + numY ELSE MapH - startY
        s2 == RenderRect(s1, startX, startY, startY, endX, endY)
    IN [s2 EXCEPT !.rendered = _updateRenderSq([s2.rendered EXCEPT
                        !.x = startX, !.y = startY,
                        !.width = endX - startX, !.height = endY - startY]),
                  !.buffered = [left |-> FALSE, right |-> FALSE, top |-> FALSE, bottom |-> FALSE],
                  !.panDelta = [x |-> posX % TileW, y |-> posY % TileH]]

\* renderTiles(startX, startY, numX, numY), with parent.position = (posX, posY)
renderTiles(s, startX0, startY0, numX, numY, posX, posY) ==
    LET s1 == clearTiles(s)
        startX == IF startX0 < 0 THEN 0 ELSE startX0
        startY == IF startY0 < 0 THEN 0 ELSE startY0
        endX == IF startX + numX <= MapW THEN startX + numX ELSE MapW - startX
        endY == IF startY + numY <= MapH THEN startY + numY ELSE MapH - startY
        s2 == RenderRect(s1, startX, startY, startY, endX, endY)
    IN [s2 EXCEPT !.rendered = _updateRenderSq([s2.rendered EXCEPT
                        !.x = startX, !.y = startY,
                        !.width = endX - startX, !.height = endY - startY]),
                  !.buffered = [left |-> FALSE, right |-> FALSE, top |-> FALSE, bottom |-> FALSE],
                  !.panDelta = [x |-> JsRem(posX, TileW), y |-> JsRem(posY, TileH)]]

RECURSIVE RenderLeftLoop(_, _, _)
\* the loop of _renderLeft from iteration i
RenderLeftLoop(s, forceNew, i) ==
    IF ~(i < s.rendered.height) THEN s
    ELSE RenderLeftLoop(moveTileSprite(s,
                            IF forceNew THEN 0 - 1 ELSE s.rendered.right,
                            IF forceNew THEN 0 - 1 ELSE s.rendered.top + i,
                            s.rendered.left - 1,
                            s.rendered.top + i),
                        forceNew, i + 1)

\* _renderLeft(forceNew) without the width++ of a forced render
_renderLeft_noGrow(s, forceNew) ==
    LET s1 == RenderLeftLoop(s, forceNew, 0)
        r1 == [s1.rendered EXCEPT !.x = @ - 1]
    IN [s1 EXCEPT !.rendered = _updateRenderSq(r1)]

\* _renderLeft(forceNew)
_renderLeft(s, forceNew) ==
    LET s1 == RenderLeftLoop(s, forceNew, 0)
        r1 == [s1.rendered EXCEPT !.x = @ - 1]
        r2 == IF forceNew THEN [r1 EXCEPT !.width = @ + 1] ELSE r1
    IN [s1 EXCEPT !.rendered = _updateRenderSq(r2)]

RECURSIVE RenderRightLoop(_, _, _)
\* the loop of _renderRight from iteration i
RenderRightLoop(s, forceNew, i) ==
    IF ~(i < s.rendered.height) THEN s
    ELSE RenderRightLoop(moveTileSprite(s,
                            IF forceNew THEN 0 - 1 ELSE s.rendered.left,
                            IF forceNew THEN 0 - 1 ELSE s.rendered.top + i,
                            s.rendered.right + 1,
                            s.rendered.top + i),
                         forceNew, i + 1)

\* _renderRight(forceNew) with the x++ of a shift in a forced render too
_renderRight_alwaysShifts(s, forceNew) ==
    LET s1 == RenderRightLoop(s, forceNew, 0)
        r1 == [s1.rendered EXCEPT !.x = @ + 1]
        r2 == IF forceNew THEN [r1 EXCEPT !.width = @ + 1] ELSE r1
    IN [s1 EXCEPT !.rendered = _updateRenderSq(r2)]

\* _renderRight(forceNew)
_renderRight(s, forceNew) ==
    LET s1 == RenderRightLoop(s, forceNew, 0)
        r1 == IF ~forceNew THEN [s1.rendered EXCEPT !.x = @ + 1] ELSE s1.rendered
        r2 == IF forceNew THEN [r1 EXCEPT !.width = @ + 1] ELSE r1
    IN [s1 EXCEPT !.rendered = _updateRenderSq(r2)]

RECURSIVE RenderUpLoop(_, _, _)
\* the loop of _renderUp from iteration i
RenderUpLoop(s, forceNew, i) ==
    IF ~(i < s.rendered.width) THEN s
    ELSE RenderUpLoop(moveTileSprite(s,
                            IF forceNew THEN 0 - 1 ELSE s.rendered.left + i,
                            IF forceNew THEN 0 - 1 ELSE s.rendered.bottom,
                            s.rendered.left + i,
                            s.rendered.top - 1),
                      forceNew, i + 1)

\* _renderUp(forceNew)
_renderUp(s, forceNew) ==
    LET s1 == RenderUpLoop(s, forceNew, 0)
        r1 == [s1.rendered EXCEPT !.y = @ - 1]
        r2 == IF forceNew THEN [r1 EXCEPT !.height = @ + 1] ELSE r1
    IN [s1 EXCEPT !.rendered = _updateRenderSq(r2)]

RECURSIVE RenderDownLoop(_, _, _)
\* the loop of _renderDown from iteration i
RenderDownLoop(s, forceNew, i) ==
    IF ~(i < s.rendered.width) THEN s
    ELSE RenderDownLoop(moveTileSprite(s,
                            IF forceNew THEN 0 - 1 ELSE s.rendered.left + i,
                            IF forceNew THEN 0 - 1 ELSE s.rendered.top,
                            s.rendered.left + i,
                            s.rendered.bottom + 1),
                        forceNew, i + 1)

\* _renderDown(forceNew)
_renderDown(s, forceNew) ==
    LET s1 == RenderDownLoop(s, forceNew, 0)
        r1 == IF ~forceNew THEN [s1.rendered EXCEPT !.y = @ + 1] ELSE s1.rendered
        r2 == IF forceNew THEN [r1 EXCEPT !.height = @ + 1] ELSE r1
    IN [s1 EXCEPT !.rendered = _updateRenderSq(r2)]

\* the buffer step of pan without the four flags: an edge is forced each time
PanBuffer_noFlags(s, dx, dy) ==
    IF dx > 0 THEN _renderLeft(s, TRUE)
    ELSE IF dx < 0 THEN _renderRight(s, TRUE)
    ELSE IF dy > 0 THEN _renderUp(s, TRUE)
    ELSE IF dy < 0 THEN _renderDown(s, TRUE)
    ELSE s

\* the buffer step of pan: at most one edge, the first whose condition holds
PanBuffer(s, dx, dy) ==
    IF dx > 0 /\ ~s.buffered.left
    THEN _renderLeft([s EXCEPT !.buffered.left = TRUE], TRUE)
    ELSE IF dx < 0 /\ ~s.buffered.right
    THEN _renderRight([s EXCEPT !.buffered.right = TRUE], TRUE)
    ELSE IF dy > 0 /\ ~s.buffered.top
    THEN _renderUp([s EXCEPT !.buffered.top = TRUE], TRUE)
    ELSE IF dy < 0 /\ ~s.buffered.bottom
    THEN _renderDown([s EXCEPT !.buffered.bottom = TRUE], TRUE)
    ELSE s

RECURSIVE PanLeftLoop_strict(_)
\* the left threshold loop with > in the place of >=
PanLeftLoop_strict(s) ==
    IF ~(s.panDelta.x > TileW) THEN s
    ELSE LET s1 == _renderLeft(s, FALSE)
         IN PanLeftLoop_strict([s1 EXCEPT !.panDelta.x = @ - TileW, !.shifts.left = @ + 1])

RECURSIVE PanLeftLoop(_)
\* while(this._panDelta.x >= scaledTileSize.x)
PanLeftLoop(s) ==
    IF ~(s.panDelta.x >= TileW) THEN s
    ELSE LET s1 == _renderLeft(s, FALSE)
         IN PanLeftLoop([s1 EXCEPT !.panDelta.x = @ - TileW, !.shifts.left = @ + 1])

RECURSIVE PanRightLoop_strict(_)
\* the right threshold loop with < in the place of <=
PanRightLoop_strict(s) ==
    IF ~(s.panDelta.x < 0 - TileW) THEN s
    ELSE LET s1 == _renderRight(s, FALSE)
         IN PanRightLoop_strict([s1 EXCEPT !.panDelta.x = @ + TileW, !.shifts.right = @ + 1])

RECURSIVE PanRightLoop_resets(_)
\* the right threshold loop with the accumulator set to 0 by a shift
PanRightLoop_resets(s) ==
    IF ~(s.panDelta.x <= 0 - TileW) THEN s
    ELSE LET s1 == _renderRight(s, FALSE)
         IN PanRightLoop_resets([s1 EXCEPT !.panDelta.x = 0, !.shifts.right = @ + 1])

RECURSIVE PanRightLoop(_)
\* while(this._panDelta.x <= -scaledTileSize.x)
PanRightLoop(s) ==
    IF ~(s.panDelta.x <= 0 - TileW) THEN s
    ELSE LET s1 == _renderRight(s, FALSE)
         IN PanRightLoop([s1 EXCEPT !.panDelta.x = @ + TileW, !.shifts.right = @ + 1])

RECURSIVE PanUpLoop(_)
\* while(this._panDelta.y >= scaledTileSize.y)
PanUpLoop(s) ==
    IF ~(s.panDelta.y >= TileH) THEN s
    ELSE LET s1 == _renderUp(s, FALSE)
         IN PanUpLoop([s1 EXCEPT !.panDelta.y = @ - TileH, !.shifts.up = @ + 1])

RECURSIVE PanDownLoop(_)
\* while(this._panDelta.y <= -scaledTileSize.y)
PanDownLoop(s) ==
    IF ~(s.panDelta.y <= 0 - TileH) THEN s
    ELSE LET s1 == _renderDown(s, FALSE)
         IN PanDownLoop([s1 EXCEPT !.panDelta.y = @ + TileH, !.shifts.down = @ + 1])

\* pan(dx, dy) with the buffer step taken twice: a diagonal pan buffers two edges
pan_bufferTwice(s, dx, dy) ==
    LET s1 == [s EXCEPT !.panDelta = [x |-> s.panDelta.x + dx, y |-> s.panDelta.y + dy]]
        s2 == PanBuffer(PanBuffer(s1, dx, dy), dx, dy)
    IN PanDownLoop(PanUpLoop(PanRightLoop(PanLeftLoop(s2))))

\* pan(dx, dy)
pan(s, dx, dy) ==
    LET s1 == [s EXCEPT !.panDelta = [x |-> s.panDelta.x + dx, y |-> s.panDelta.y + dy]]
        s2 == PanBuffer(s1, dx, dy)
    IN PanDownLoop(PanUpLoop(PanRightLoop(PanLeftLoop(s2))))

(***************************************************************************)
(* A call of a collaborator that raises while moveTileSprite binds a       *)
(* sprite: the exception leaves moveTileSprite, the loop of _renderLeft    *)
(* and pan at once, and the layer stays as the statements before it left   *)
(* it. Nothing in the layer catches an exception.                          *)
(***************************************************************************)
\* the calls of moveTileSprite on objects the layer does not own
Collaborators == {"getTileTexture", "enablePhysics", "setTexture"}

\* moveTileSprite when the collaborator call `at` raises: the layer at that call,
\* the sprite that was being bound, and whether the call was reached at all
moveTileSprite_raises(s, fromTileX, fromTileY, toTileX, toTileY, at) ==
    LET id == toTileX + (toTileY * MapW)
        tileId == tileIds(id)
        set == getTileset(tileId)
        texture == getTileTexture(tileId)
        props == getTileProperties(tileId)
        hasFrom == HasTile(s, fromTileX, fromTileY)
        tile == IF hasFrom THEN s.tiles[<<fromTileX, fromTileY>>]
                ELSE IF Len(s.pool) > 0 THEN s.pool[Len(s.pool)]
                ELSE s.children + 1
        s1 == IF hasFrom THEN [s EXCEPT !.tiles[<<fromTileX, fromTileY>>] = Null]
              ELSE IF Len(s.pool) > 0
              THEN [s EXCEPT !.pool = SubSeq(s.pool, 1, Len(s.pool) - 1)]
              ELSE [s EXCEPT !.children = s.children + 1,
                             !.sprites = (tile :> NewTile(texture)) @@ s.sprites]
        \* tile.enablePhysics(...) has returned
        s2 == IF props.isCollidable THEN [s1 EXCEPT !.sprites[tile].physics = TRUE] ELSE s1
    IN IF ~set
       THEN [layer |-> moveTileSprite(s, fromTileX, fromTileY, toTileX, toTileY),
             raised |-> FALSE, tile |-> 0]
       ELSE IF at = "getTileTexture"
       THEN [layer |-> s, raised |-> TRUE, tile |-> tile]
       ELSE IF at = "enablePhysics" /\ props.isCollidable
       THEN [layer |-> s1, raised |-> TRUE, tile |-> tile]
       ELSE IF at = "setTexture"
       THEN [layer |-> s2, raised |-> TRUE, tile |-> tile]
       ELSE [layer |-> moveTileSprite(s, fromTileX, fromTileY, toTileX, toTileY),
             raised |-> FALSE, tile |-> 0]

RECURSIVE RenderLeftLoopBefore(_, _, _, _)
\* the iterations of the loop of _renderLeft from i that come before iteration n
RenderLeftLoopBefore(s, forceNew, i, n) ==
    IF ~(i < s.rendered.height) \/ ~(i < n) THEN s
    ELSE RenderLeftLoopBefore(moveTileSprite(s,
                                  IF forceNew THEN 0 - 1 ELSE s.rendered.right,
                                  IF forceNew THEN 0 - 1 ELSE s.rendered.top + i,
                                  s.rendered.left - 1,
                                  s.rendered.top + i),
                              forceNew, i + 1, n)

\* _renderLeft(forceNew) when `at` raises in iteration n of its loop: the
\* statements after the loop do not run
_renderLeft_raises(s, forceNew, n, at) ==
    IF ~(n < s.rendered.height) THEN [layer |-> s, raised |-> FALSE, tile |-> 0]
    ELSE CHOOSE m \in {moveTileSprite_raises(s1,
                           IF forceNew THEN 0 - 1 ELSE s1.rendered.right,
                           IF forceNew THEN 0 - 1 ELSE s1.rendered.top + n,
                           s1.rendered.left - 1,
                           s1.rendered.top + n, at) :
                       s1 \in {RenderLeftLoopBefore(s, forceNew, 0, n)}} : TRUE

\* pan(dx, dy) when `at` raises in iteration n of the first _renderLeft it runs
pan_raises(s, dx, dy, n, at) ==
    LET s1 == [s EXCEPT !.panDelta = [x |-> s.panDelta.x + dx, y |-> s.panDelta.y + dy]]
    IN IF dx > 0 /\ ~s1.buffered.left
       THEN _renderLeft_raises([s1 EXCEPT !.buffered.left = TRUE], TRUE, n, at)
       ELSE LET s2 == PanBuffer(s1, dx, dy)
            IN IF s2.panDelta.x >= TileW
               THEN _renderLeft_raises(s2, FALSE, n, at)
               ELSE [layer |-> s2, raised |-> FALSE, tile |-> 0]

(***************************************************************************)
(* gf.EventEmitter (src/src/utils/EventEmitter.js), which the layer mixes  *)
(* in: its state, its observers and its four methods.                      *)
(***************************************************************************)
\* the listeners the host registers; ListenerBody says what each does
Listeners == 1..4
\* the once() calls of the host
MaxOnce == 3
\* how deep the listener that emits lets the emits nest
MaxNest == 1
\* the calls the host makes on the emitter
MaxEmitterCalls == 4

\* the event types the host uses
Types == {"click", "move"}

\* the listeners the host uses with a type: all of them with "click", listener 1
\* alone with "move"
Hosted(type, l) == type = "click" \/ l = 1

\* the listener l as a function value: it has no .listener property
Fn(l) == [id |-> l, listener |-> 0]

\* the k-th function g of once(type, l), identified by -k: g.listener = l
Wrapper(k, l) == [id |-> 0 - k, listener |-> l]

\* the values of this._events[type]
NoHandler == [kind |-> "undefined", fn |-> Fn(0), list |-> <<>>]
OneHandler(fn) == [kind |-> "function", fn |-> fn, list |-> <<>>]
ManyHandlers(list) == [kind |-> "object", fn |-> Fn(0), list |-> list]

\* the functions registered in a value of this._events[type], in order
Registered(handler) ==
    IF handler.kind = "undefined" THEN <<>>
    ELSE IF handler.kind = "function" THEN <<handler.fn>>
    ELSE handler.list

\* the emitter as one value, for the operators that model the methods
Emitter == [events |-> _events, wrappers |-> wrappers, due |-> due,
            starts |-> <<>>, log |-> <<>>]

\* on(type, listener): fn is the listener
on(e, type, fn) ==
    LET handler == e.events[type]
    IN IF handler.kind = "undefined"
       THEN [e EXCEPT !.events[type] = OneHandler(fn)]
       ELSE IF handler.kind = "object"
       THEN [e EXCEPT !.events[type] = ManyHandlers(Append(handler.list, fn))]
       ELSE [e EXCEPT !.events[type] = ManyHandlers(<<handler.fn, fn>>)]

\* off(type, listener) removing every function that matches
off_all(e, type, fn) ==
    LET list == e.events[type]
        Matches(f) == f.id = fn.id \/ (f.listener # 0 /\ f.listener = fn.id)
        rest == SelectSeq(Registered(list), LAMBDA f : ~Matches(f))
    IN IF rest = Registered(list) THEN e
       ELSE IF rest = <<>> THEN [e EXCEPT !.events[type] = NoHandler]
       ELSE [e EXCEPT !.events[type] = ManyHandlers(rest)]

\* off(type, listener): fn is the listener
off(e, type, fn) ==
    LET list == e.events[type]
        \* list[i] === listener || (list[i].listener && list[i].listener === listener)
        Matches(f) == f.id = fn.id \/ (f.listener # 0 /\ f.listener = fn.id)
    IN IF list.kind = "undefined" THEN e
       ELSE IF list.kind = "function"
       THEN IF Matches(list.fn) THEN [e EXCEPT !.events[type] = NoHandler] ELSE e
       ELSE LET found == {i \in DOMAIN list.list : Matches(list.list[i])}
                \* for(i = length; i-- > 0;): the last match
                position == CHOOSE i \in found : \A j \in found : i >= j
            IN IF found = {} THEN e
               ELSE IF Len(list.list) = 1 THEN [e EXCEPT !.events[type] = NoHandler]
               ELSE [e EXCEPT !.events[type] = ManyHandlers(
                        SubSeq(list.list, 1, position - 1)
                        \o SubSeq(list.list, position + 1, Len(list.list)))]

\* once(type, listener): on(type, g) with a new function g; fn is the listener
once(e, type, fn) ==
    LET g == Wrapper(Len(e.wrappers) + 1, fn.id)
        e1 == [e EXCEPT !.wrappers = Append(@, [type |-> type, listener |-> fn.id,
                                                fired |-> 0])]
    IN on(e1, type, g)

RECURSIVE Ids(_)
\* the identities of the functions of a sequence
Ids(q) == IF q = <<>> THEN <<>> ELSE <<Head(q).id>> \o Ids(Tail(q))

RECURSIVE emit(_, _, _)
RECURSIVE RunListeners(_, _, _, _, _, _)

\* what the listener l does when it runs for an emit of type at nesting depth:
\* listener 1 does nothing, listener 2 removes itself, listener 3 removes
\* listener 1, listener 4 emits the type again unless MaxNest emits are nested
ListenerBody(e, l, type, depth) ==
    IF l = 2 THEN off(e, type, Fn(2))
    ELSE IF l = 3 THEN off(e, type, Fn(1))
    ELSE IF l = 4 /\ depth < MaxNest THEN emit(e, type, depth + 1)
    ELSE e

\* listeners[i].apply(this, args) in the emit numbered n: a function g of once
\* calls this.off(type, g) and then its listener
RunListener(e, fn, type, depth, n) ==
    LET e1 == [e EXCEPT !.log = Append(@, [emit |-> n, fn |-> fn.id])]
    IN IF fn.listener # 0
       THEN LET e2 == off(e1, type, fn)
                e3 == [e2 EXCEPT !.wrappers[0 - fn.id].fired = @ + 1]
            IN ListenerBody(e3, fn.listener, type, depth)
       ELSE ListenerBody(e1, fn.id, type, depth)

\* the loop of emit over the array as it is now, in the place of the copy
RunListeners_live(e, listeners, i, type, depth, n) ==
    IF ~(i <= Len(listeners)) THEN e
    ELSE LET now == Registered(e.events[type])
             e1 == IF i <= Len(now) THEN RunListener(e, now[i], type, depth, n) ELSE e
         IN RunListeners(e1, listeners, i + 1, type, depth, n)

\* for (i = 0; i < len; i++) listeners[i].apply(this, args), listeners being the
\* copy handler.slice()
RunListeners(e, listeners, i, type, depth, n) ==
    IF ~(i <= Len(listeners)) THEN e
    ELSE RunListeners(RunListener(e, listeners[i], type, depth, n),
                      listeners, i + 1, type, depth, n)

\* emit(type): the emit is numbered, and notes the functions registered at its
\* start, the once() functions among them and what it returns
emit(e, type, depth) ==
    LET handler == e.events[type]
        n == Len(e.starts) + 1
        ids == Ids(Registered(handler))
        e1 == [e EXCEPT
                 !.starts = Append(@, [depth |-> depth, registered |-> ids,
                                       ret |-> IF handler.kind = "undefined"
                                               THEN "false" ELSE "this"]),
                 !.due = @ \cup {k \in DOMAIN e.wrappers :
                                    \E i \in DOMAIN ids : ids[i] = 0 - k}]
    IN IF handler.kind = "undefined" THEN e1
       ELSE IF handler.kind = "function"
       THEN RunListener(e1, handler.fn, type, depth, n)
       ELSE RunListeners(e1, handler.list, 1, type, depth, n)

(***************************************************************************)
(* The state after construction, and the two calls of the host.            *)
(***************************************************************************)
\* no emit of the host yet
NoEmit == [type |-> "none", starts |-> <<>>, log |-> <<>>]

(***************************************************************************)
(* The Shake effect (src/unnamed/part_000) on the Effect base class        *)
(* (src/src/fx/camera/Close.js, lines 106-145). Time is counted in units   *)
(* of 500 ms. Of the parent only the calls of pan are kept: their sum.     *)
(***************************************************************************)
\* the longest duration the host asks for
MaxDuration == 2
\* the largest offset on an axis: intensity * parent.size, rounded
MaxShake == 1
\* the calls the host makes on the effect
MaxEffectCalls == 5

\* this.duration = duration || 1000
DefaultDuration == 2

\* the duration argument of start: 0 stands for a value that is not given
Durations == 0..MaxDuration
\* dt * 1000 of an update
Dts == {1, 2}
\* direction || C.AXIS.BOTH
Directions == {"horizontal", "vertical", "both"}
\* cb: not a function, a function that returns false, or one that returns
\* anything else
Callbacks == {"none", "false", "other"}
\* math.round(Math.random() * intensity * size * 2 - intensity * size)
Randoms == (0 - MaxShake)..MaxShake

\* Effect.start
Effect_start(e) == [e EXCEPT !.done = FALSE]

\* Effect.stop
Effect_stop(e) == [e EXCEPT !.done = TRUE]

\* Shake.start(intensity, duration, direction, cb)
Shake_start(e, duration, direction, cb) ==
    [Effect_start(e) EXCEPT !.duration = IF duration = 0 THEN DefaultDuration ELSE duration,
                            !.direction = direction,
                            !.offset = <<0, 0>>,
                            !.cb = cb]

\* Shake.stop
Shake_stop(e) ==
    [Effect_stop(e) EXCEPT !.duration = 0, !.offset = <<0, 0>>]

\* Effect._complete: this.stop() is the stop of the Shake
_complete(e) ==
    LET e1 == [e EXCEPT !.done = TRUE]
    IN IF e.cb # "none"
       THEN IF e.cb # "false" THEN Shake_stop(e1) ELSE e1
       ELSE Shake_stop(e1)

\* this.parent.pan(this.offset.x, this.offset.y)
ParentPan(e) ==
    [e EXCEPT !.panned = <<e.panned[1] + e.offset[1], e.panned[2] + e.offset[2]>>]

\* Shake.update(dt), with rx and ry the two rounded random numbers
Shake_update(e, dt, rx, ry) ==
    IF e.done THEN e
    ELSE LET e1 == [e EXCEPT !.duration = @ - dt,
                             !.offset = <<0 - e.offset[1], 0 - e.offset[2]>>]
             e2 == ParentPan(e1)
         IN IF e2.duration <= 0 THEN _complete(e2)
            ELSE ParentPan([e2 EXCEPT
                     !.offset = <<IF e2.direction \in {"horizontal", "both"}
                                  THEN rx ELSE e2.offset[1],
                                  IF e2.direction \in {"vertical", "both"}
                                  THEN ry ELSE e2.offset[2]>>])

\* the effect after new Shake(): done, at offset (0, 0); duration, direction and
\* cb are not set before the first start
ShakeConstructed ==
    /\ effect = [done |-> TRUE, duration |-> 0, direction |-> "both", offset |-> <<0, 0>>,
                 cb |-> "none", panned |-> <<0, 0>>]
    /\ fxcall = [op |-> "new"]
    /\ fxcalls = 0

(***************************************************************************)
(* The TextureFont (src/src/font/TextureFont.js). The sprites are numbered *)
(* in the order they are created, which is their order in this.children:   *)
(* children is their number. Positions are left out.                       *)
(***************************************************************************)
\* the update calls the host makes on the font
MaxFontCalls == 4

\* this.map: the characters the settings rename
FontMap == [c \in {"b"} |-> "bee"]

\* this.textures: the names that have a texture
Textures == {"a", "bee"}

\* the texts the host sets: "", "a", "ab", "a\nb", "aab" and "a?"
Texts == {<<>>, <<"a">>, <<"a", "b">>, <<"a", "\n", "b">>, <<"a", "a", "b">>, <<"a", "?">>}

\* if(this.map[ch]) ch = this.map[ch]
Mapped(ch) == IF ch \in DOMAIN FontMap THEN FontMap[ch] ELSE ch

\* the characters update gets a sprite for: those of the strings of
\* this.text.split('\n'), in order
Characters(text) == SelectSeq(text, LAMBDA ch : ch # "\n")

\* TextureFont._getSprite(ch); the sprite returned is the last of f.shown
_getSprite(f, ch) ==
    IF Mapped(ch) \notin Textures THEN [f EXCEPT !.raised = TRUE]
    ELSE IF f.sprites = <<>>
         THEN LET spr == f.children + 1
              IN [f EXCEPT !.children = spr,
                           !.texture = Append(f.texture, Mapped(ch)),
                           !.visible = @ \cup {spr},
                           !.shown = Append(@, spr)]
         ELSE LET spr == f.sprites[Len(f.sprites)]
              IN [f EXCEPT !.sprites = SubSeq(f.sprites, 1, Len(f.sprites) - 1),
                           !.texture = [f.texture EXCEPT ![spr] = Mapped(ch)],
                           !.visible = @ \cup {spr},
                           !.shown = Append(@, spr)]

\* TextureFont._freeSprite(spr)
_freeSprite(f, spr) ==
    [f EXCEPT !.sprites = Append(@, spr), !.visible = @ \ {spr}]

\* for(var c = this.children.length - 1; c > -1; --c) this._freeSprite(this.children[c])
RECURSIVE FreeLoop(_, _)
FreeLoop(f, c) ==
    IF c > 0 THEN FreeLoop(_freeSprite(f, c), c - 1) ELSE f

\* the loops over the strings and their characters, from the i-th character on;
\* an exception of _getSprite ends them
RECURSIVE TextLoop(_, _, _)
TextLoop(f, chars, i) ==
    IF i > Len(chars) THEN [f EXCEPT !.dirty = FALSE]
    ELSE LET f1 == _getSprite(f, chars[i])
         IN IF f1.raised THEN f1 ELSE TextLoop(f1, chars, i + 1)

\* TextureFont.update
TextureFont_update(f) ==
    IF ~f.dirty THEN f
    ELSE TextLoop(FreeLoop([f EXCEPT !.shown = <<>>, !.raised = FALSE], f.children),
                  Characters(f.text), 1)

\* TextureFont.setText(txt)
setText(f, txt) == [f EXCEPT !.text = txt, !.dirty = TRUE]

\* the font after new TextureFont(font, settings): no sprites, not dirty
FontConstructed ==
    /\ font = [text |-> <<>>, dirty |-> FALSE, children |-> 0, sprites |-> <<>>,
               texture |-> <<>>, visible |-> {}, shown |-> <<>>, raised |-> FALSE]
    /\ fontcall = [op |-> "new"]
    /\ fontcalls = 0

(***************************************************************************)
(* The state registry of the Game (src/src/game/Game.js, lines 343-405).   *)
(* A state is known by its name; a state object without a name and the     *)
(* empty string have the name "".                                          *)
(***************************************************************************)
\* the calls the host makes on the game
MaxGameCalls == 4

\* the names of the states the host creates
StateNames == {"_default", "a", "b"}

\* the arguments of addState, removeState and enableState: a state or a name
StateArgs == StateNames \cup {""}

\* this.activeState when it is undefined
NoState == "undefined"

\* the outcome of a call: the game after it and whether the call raised
Returned(g) == [game |-> g, raised |-> FALSE]
Raised(g) == [game |-> g, raised |-> TRUE]

\* Game.enableState(state)
enableState(g, name) ==
    LET g1 == IF g.activeState # NoState
              THEN [g EXCEPT !.enabled = @ \ {g.activeState}]
              ELSE g
    IN IF ~g1.hasStates THEN Raised(g1)
       ELSE IF name \notin g1.states
            THEN Raised([g1 EXCEPT !.activeState = NoState])
            ELSE Returned([g1 EXCEPT !.activeState = name, !.enabled = @ \cup {name}])

\* Game.addState(state)
addState(g, name) ==
    IF name = "" THEN Raised(g)
    ELSE IF ~g.hasStates THEN Raised(g)
    ELSE IF name \in g.states THEN Raised(g)
    ELSE Returned([g EXCEPT !.states = @ \cup {name}, !.stage = @ \cup {name}])

\* Game.removeState(state)
removeState(g, name) ==
    IF name = "" THEN Raised(g)
    ELSE IF ~g.hasStates THEN Raised(g)
    ELSE IF name \notin g.states THEN Raised(g)
    ELSE IF name = "_default" THEN Returned(g)
    ELSE IF g.activeState = NoState THEN Raised(g)
    ELSE IF name = g.activeState
         THEN LET r == enableState(g, "_default")
              IN IF r.raised THEN r
                 ELSE Returned([r.game EXCEPT !.states = @ \ {name}])
         ELSE Returned([g EXCEPT !.states = @ \ {name}])

\* the game after new Game(container, settings): the constructor assigns neither
\* this.states nor this.activeState
GameAsConstructed ==
    [hasStates |-> FALSE, states |-> {}, activeState |-> NoState, stage |-> {},
     enabled |-> {}]

\* the game once the '_default' state is registered and enabled
GameWithDefault ==
    [hasStates |-> TRUE, states |-> {"_default"}, activeState |-> "_default",
     stage |-> {"_default"}, enabled |-> {"_default"}]

GameConstructed ==
    /\ game = GameAsConstructed
    /\ gamecall = [op |-> "new", name |-> "", raised |-> FALSE]
    /\ gamecalls = 0

\* the emitter after EventEmitter.call(this): this._events = {}
EmitterConstructed ==
    /\ _events = [type \in Types |-> NoHandler]
    /\ wrappers = <<>>
    /\ due = {}
    /\ emitted = NoEmit
    /\ ecall = [op |-> "new", type |-> "none", listener |-> 0]
    /\ ecalls = 0

\* the layer after its constructor, whatever the data it was built with; the
\* rectangle is new gf.Rectangle(0, 0, 0, 0): left, right, top and bottom are
\* set by the first _updateRenderSq, which every path runs before reading them
Constructed ==
    /\ EmitterConstructed
    /\ ShakeConstructed
    /\ FontConstructed
    /\ tiles = <<>>
    /\ negX = <<>>
    /\ negY = <<>>
    /\ children = 0
    /\ sprites = <<>>
    /\ _tilePool = <<>>
    /\ _rendered = _updateRenderSq([x |-> 0, y |-> 0, width |-> 0, height |-> 0,
                                    left |-> 0, right |-> 0, top |-> 0, bottom |-> 0])
    /\ _buffered = [left |-> FALSE, right |-> FALSE, top |-> FALSE, bottom |-> FALSE]
    /\ _panDelta = [x |-> 0, y |-> 0]
    /\ call = [op |-> "new", a |-> 0, b |-> 0, c |-> 0, d |-> 0, posX |-> 0, posY |-> 0]
    /\ shifts = NoShifts
    /\ overwrote = FALSE
    /\ repeat = FALSE
    /\ everRendered = FALSE
    /\ run = [k |-> 0 - 1, x0 |-> 0, y0 |-> 0, w0 |-> 0, h0 |-> 0, sx |-> 0, sy |-> 0]
    /\ calls = 0
    /\ peakLive = 0
    /\ origin = [n |-> 0, rendered |-> _rendered, panDelta |-> _panDelta,
                 buffered |-> _buffered, live |-> {}]

\* no function is being called on its own
NoProbe == [op |-> "none"]

Init == layerData = TileIdsData /\ Constructed /\ probe = NoProbe /\ GameConstructed

\* the rectangle stays within MaxOut tiles of the map: the bound of the model
InReach(r) ==
    /\ r.x >= 0 - MaxOut /\ r.x <= MapW + MaxOut
    /\ r.x + r.width >= 0 - MaxOut /\ r.x + r.width <= MapW + MaxOut
    /\ r.y >= 0 - MaxOut /\ r.y <= MapH + MaxOut
    /\ r.y + r.height >= 0 - MaxOut /\ r.y + r.height <= MapH + MaxOut

\* the layer value s becomes the state of the layer
Becomes(s) ==
    /\ tiles' = s.tiles
    /\ negX' = s.negX
    /\ negY' = s.negY
    /\ children' = s.children
    /\ sprites' = s.sprites
    /\ _tilePool' = s.pool
    /\ _rendered' = s.rendered
    /\ _buffered' = s.buffered
    /\ _panDelta' = s.panDelta
    /\ shifts' = s.shifts
    /\ overwrote' = s.overwrote
    /\ peakLive' = s.peak
    /\ layerData' = layerData
    /\ probe' = probe
    /\ UNCHANGED emitterVars
    /\ UNCHANGED otherVars

\* the host calls renderTiles(startX, startY, numX, numY)
RenderTilesCall ==
    \E r \in Renders :
        LET startX == r[1][1]
            numX == r[1][2]
            startY == r[2][1]
            numY == r[2][2]
            posX == r[3]
            posY == r[4]
            c == [op |-> "renderTiles", a |-> startX, b |-> startY, c |-> numX, d |-> numY,
                  posX |-> posX, posY |-> posY]
        IN /\ calls < MaxCalls
           /\ \E s \in {renderTiles(Layer, startX, startY, numX, numY, posX, posY)} :
               /\ calls' = calls + 1
               /\ s.children <= MaxSprites
               /\ Becomes(s)
               /\ call' = c
               /\ repeat' = (call = c)
               /\ everRendered' = TRUE
               /\ origin' = origin
               /\ run' = [k |-> IF s.panDelta.x = 0 THEN 0 ELSE 0 - 1,
                          x0 |-> s.rendered.x, y0 |-> s.rendered.y,
                          w0 |-> s.rendered.width, h0 |-> s.rendered.height,
                          sx |-> s.panDelta.x, sy |-> s.panDelta.y]

\* the host calls pan(dx, dy)
PanCall ==
    \E d \in Deltas :
        LET dx == d[1]
            dy == d[2]
            c == [op |-> "pan", a |-> dx, b |-> dy, c |-> 0, d |-> 0, posX |-> 0, posY |-> 0]
        IN /\ calls < MaxCalls
           /\ \E s \in {pan(Layer, dx, dy)} :
               /\ calls' = calls + 1
               /\ InReach(s.rendered)
               /\ s.children <= MaxSprites
               /\ Becomes(s)
               /\ call' = c
               /\ repeat' = (call = c)
               /\ everRendered' = everRendered
               /\ origin' = origin
               /\ run' = IF run.k >= 0 /\ dx = TileW /\ dy = 0
                         THEN [run EXCEPT !.k = @ + 1, !.sx = @ + dx, !.sy = @ + dy]
                         ELSE [run EXCEPT !.k = 0 - 1, !.sx = @ + dx, !.sy = @ + dy]

Next == RenderTilesCall \/ PanCall

Spec == Init /\ [][Next]_vars

\* the host calls pan(dx, dy) and a collaborator raises in the first _renderLeft
PanRaisesCall ==
    \E d \in Deltas, at \in Collaborators : \E n \in 0..(_rendered.height - 1) :
      calls < MaxCalls /\ \E m \in {pan_raises(Layer, d[1], d[2], n, at)} :
            LET dx == d[1]
                dy == d[2]
            IN /\ calls' = calls + 1
               /\ m.raised
               /\ Becomes(m.layer)
               /\ call' = [op |-> "panRaises", a |-> dx, b |-> dy, c |-> n, d |-> m.tile,
                           posX |-> 0, posY |-> 0]
               /\ repeat' = FALSE
               /\ everRendered' = everRendered
               /\ origin' = origin
               /\ run' = [run EXCEPT !.k = 0 - 1, !.sx = @ + dx, !.sy = @ + dy]

NextRaises == RenderTilesCall \/ PanCall \/ PanRaisesCall

SpecRaises == Init /\ [][NextRaises]_vars

(***************************************************************************)
(* A caller that pans by an offset and then pans back by the same offset,  *)
(* as the Shake effect does from one update to the next.                   *)
(***************************************************************************)
\* this.offset of the effect: a rounded random number on either side of zero
Offsets == {<<1, 0>>, <<0 - (TileW + 1), 0>>, <<0, 1>>}

\* the edges that a pan by <<dx, dy>> and the pan back run into are buffered
EdgesBuffered(b, dx, dy) ==
    /\ dx # 0 => (b.left /\ b.right)
    /\ dy # 0 => (b.top /\ b.bottom)

\* the caller pans by an offset, once the edges concerned are buffered; it does
\* so once, at any time between the calls of the host
PanOffsetCall ==
    \E o \in Offsets :
        /\ origin.n = 0
        /\ EdgesBuffered(_buffered, o[1], o[2])
        /\ \E s \in {pan(Layer, o[1], o[2])} :
            /\ calls' = calls
            /\ InReach(s.rendered)
            /\ s.children <= MaxSprites
            /\ Becomes(s)
            /\ call' = [op |-> "panOffset", a |-> o[1], b |-> o[2], c |-> 0, d |-> 0,
                        posX |-> 0, posY |-> 0]
            /\ repeat' = FALSE
            /\ everRendered' = everRendered
            /\ run' = [run EXCEPT !.k = 0 - 1, !.sx = @ + o[1], !.sy = @ + o[2]]
            /\ origin' = [n |-> origin.n + 1, rendered |-> _rendered, panDelta |-> _panDelta,
                          buffered |-> _buffered, live |-> LiveCoords(tiles)]

\* the caller pans back by the offset of the call before: pan(-offset.x, -offset.y)
PanBackCall ==
    /\ call.op = "panOffset"
    /\ \E s \in {pan(Layer, 0 - call.a, 0 - call.b)} :
            /\ calls' = calls
            /\ InReach(s.rendered)
            /\ s.children <= MaxSprites
            /\ Becomes(s)
            /\ call' = [op |-> "panBack", a |-> 0 - call.a, b |-> 0 - call.b, c |-> 0, d |-> 0,
                        posX |-> 0, posY |-> 0]
            /\ repeat' = FALSE
            /\ everRendered' = everRendered
            /\ run' = [run EXCEPT !.k = 0 - 1, !.sx = @ - call.a, !.sy = @ - call.b]
            /\ origin' = origin

NextPanBack == RenderTilesCall \/ PanCall \/ PanOffsetCall \/ PanBackCall

SpecPanBack == Init /\ [][NextPanBack]_vars

(***************************************************************************)
(* _getInteractive on its own: the four property bags are the inputs.      *)
(***************************************************************************)
\* the values of a property: absent, or a boolean
PropValues == {"undefined", "true", "false"}

\* the property bags, as far as _getInteractive reads them
PropBags == [interactive : PropValues, interactiveTiles : PropValues]

\* the layer and everything about it stay as the constructor left them
LayerIdle ==
    UNCHANGED <<layerData, tiles, negX, negY, children, sprites, _tilePool, _rendered,
                _buffered, _panDelta, call, shifts, overwrote, repeat, everRendered,
                run, calls, peakLive, origin>>

InitInteractive ==
    /\ layerData = TileIdsData
    /\ Constructed
    /\ GameConstructed
    /\ probe \in [op : {"_getInteractive"}, hasSet : BOOLEAN, o : PropBags,
                  setProps : PropBags, layerProps : PropBags, mapProps : PropBags,
                  out : {"none"}]

\* moveTileSprite calls this._getInteractive(set, props)
GetInteractiveCall ==
    /\ probe.op = "_getInteractive"
    /\ probe.out = "none"
    /\ probe' = [probe EXCEPT !.out =
                    IF _getInteractive(probe.hasSet, probe.setProps, probe.o,
                                       probe.layerProps, probe.mapProps)
                    THEN "true" ELSE "false"]
    /\ LayerIdle
    /\ UNCHANGED emitterVars
    /\ UNCHANGED otherVars

NextInteractive == GetInteractiveCall

SpecInteractive == InitInteractive /\ [][NextInteractive]_vars

(***************************************************************************)
(* The position formula of moveTileSprite on its own.                      *)
(***************************************************************************)
\* the tile sizes, all even, and the tile offsets of the maps and the tilesets
TileSizes == {<<64, 32>>, <<4, 2>>}
TileOffsets == {<<0, 0>>, <<1, 0>>}

InitPosition ==
    /\ layerData = TileIdsData
    /\ Constructed
    /\ GameConstructed
    /\ probe \in [op : {"position"}, iso : BOOLEAN, toTileX : 0..MapW, toTileY : 0..MapH,
                  tileSize : TileSizes, setTileSize : TileSizes, tileoffset : TileOffsets,
                  out : {<<>>}]

\* moveTileSprite computes position for the tile at (toTileX, toTileY)
PositionCall ==
    /\ probe.op = "position"
    /\ probe.out = <<>>
    /\ probe' = [probe EXCEPT !.out =
                    TilePosition(probe.iso, probe.toTileX, probe.toTileY,
                                 probe.tileSize, probe.setTileSize, probe.tileoffset)]
    /\ LayerIdle
    /\ UNCHANGED emitterVars
    /\ UNCHANGED otherVars

NextPosition == PositionCall

SpecPosition == InitPosition /\ [][NextPosition]_vars

(***************************************************************************)
(* The emitter on its own: the host registers, removes and emits.          *)
(***************************************************************************)
\* the emitter value e becomes the state of the emitter after the call c
EmitterBecomes(e, c) ==
    /\ ecalls < MaxEmitterCalls
    /\ ecalls' = ecalls + 1
    /\ _events' = e.events
    /\ wrappers' = e.wrappers
    /\ due' = e.due
    /\ emitted' = IF c.op = "emit"
                  THEN [type |-> c.type, starts |-> e.starts, log |-> e.log]
                  ELSE NoEmit
    /\ ecall' = c
    /\ probe' = probe
    /\ LayerIdle
    /\ UNCHANGED otherVars

\* the host calls on(type, l)
OnCall ==
    \E type \in Types, l \in Listeners :
        /\ Hosted(type, l)
        /\ EmitterBecomes(on(Emitter, type, Fn(l)),
                          [op |-> "on", type |-> type, listener |-> l])

\* the host calls once(type, l)
OnceCall ==
    \E type \in {"click"}, l \in Listeners :
        /\ Len(wrappers) < MaxOnce
        /\ EmitterBecomes(once(Emitter, type, Fn(l)),
                          [op |-> "once", type |-> type, listener |-> l])

\* the host calls off(type, l)
OffCall ==
    \E type \in Types, l \in Listeners :
        /\ Hosted(type, l)
        /\ EmitterBecomes(off(Emitter, type, Fn(l)),
                          [op |-> "off", type |-> type, listener |-> l])

\* the host calls emit(type)
EmitCall ==
    \E type \in Types :
        EmitterBecomes(emit(Emitter, type, 0), [op |-> "emit", type |-> type, listener |-> 0])

NextEmitter == OnCall \/ OnceCall \/ OffCall \/ EmitCall

SpecEmitter == Init /\ [][NextEmitter]_vars

\* layer.data of a map whose tileset has no texture for its last tile id
BrokenTileIdsData == [i \in 0..(MapW * MapH - 1) |-> 1 + (i % 3)]

InitBrokenAssets ==
    layerData = BrokenTileIdsData /\ Constructed /\ probe = NoProbe /\ GameConstructed

\* the layer of a map with a tile id that has a tileset and no texture
SpecBrokenAssets == InitBrokenAssets /\ [][Next]_vars

(***************************************************************************)
(* The host of a Shake effect: start, stop and update in any order.        *)
(***************************************************************************)
\* the effect value e becomes the state of the effect after the call c
EffectBecomes(e, c) ==
    /\ fxcalls < MaxEffectCalls
    /\ fxcalls' = fxcalls + 1
    /\ effect' = e
    /\ fxcall' = c
    /\ probe' = probe
    /\ LayerIdle
    /\ UNCHANGED emitterVars
    /\ UNCHANGED fontVars
    /\ UNCHANGED gameVars

ShakeStartCall ==
    \E duration \in Durations, direction \in Directions, cb \in Callbacks :
        EffectBecomes(Shake_start(effect, duration, direction, cb), [op |-> "start"])

ShakeStopCall ==
    EffectBecomes(Shake_stop(effect), [op |-> "stop"])

ShakeUpdateCall ==
    \E dt \in Dts, rx \in Randoms, ry \in Randoms :
        EffectBecomes(Shake_update(effect, dt, rx, ry), [op |-> "update"])

NextShake == ShakeStartCall \/ ShakeStopCall \/ ShakeUpdateCall

SpecShake == Init /\ [][NextShake]_vars

(***************************************************************************)
(* The host of a TextureFont: setText and update in any order.             *)
(***************************************************************************)
\* the font value f becomes the state of the font after the call c
FontBecomes(f, c) ==
    /\ font' = f
    /\ fontcall' = c
    /\ probe' = probe
    /\ LayerIdle
    /\ UNCHANGED emitterVars
    /\ UNCHANGED effectVars
    /\ UNCHANGED gameVars

SetTextCall ==
    \E txt \in Texts :
        /\ fontcalls' = fontcalls
        /\ FontBecomes(setText(font, txt), [op |-> "setText"])

UpdateCall ==
    /\ fontcalls < MaxFontCalls
    /\ fontcalls' = fontcalls + 1
    /\ \E f \in {TextureFont_update(font)} :
           FontBecomes(f, [op |-> "update"])

NextFont == SetTextCall \/ UpdateCall

SpecFont == Init /\ [][NextFont]_vars

(***************************************************************************)
(* The host of a Game: addState, removeState and enableState in any order, *)
(* on the game as constructed and on a game with its '_default' state.     *)
(***************************************************************************)
InitGame ==
    /\ layerData = TileIdsData
    /\ Constructed
    /\ probe = NoProbe
    /\ game \in {GameAsConstructed, GameWithDefault}
    /\ gamecall = [op |-> "new", name |-> "", raised |-> FALSE]
    /\ gamecalls = 0

\* the outcome r becomes the state of the game after the call op(name)
GameBecomes(r, op, name) ==
    /\ gamecalls' = gamecalls + 1
    /\ game' = r.game
    /\ gamecall' = [op |-> op, name |-> name, raised |-> r.raised]
    /\ probe' = probe
    /\ LayerIdle
    /\ UNCHANGED emitterVars
    /\ UNCHANGED effectVars
    /\ UNCHANGED fontVars

AddStateCall ==
    /\ gamecalls < MaxGameCalls
    /\ \E name \in StateArgs : GameBecomes(addState(game, name), "addState", name)

RemoveStateCall ==
    /\ gamecalls < MaxGameCalls
    /\ \E name \in StateArgs : GameBecomes(removeState(game, name), "removeState", name)

EnableStateCall ==
    /\ gamecalls < MaxGameCalls
    /\ \E name \in StateArgs : GameBecomes(enableState(game, name), "enableState", name)

NextGame == AddStateCall \/ RemoveStateCall \/ EnableStateCall

SpecGame == InitGame /\ [][NextGame]_vars

(***************************************************************************)
(* The properties of the layer.                                            *)
(***************************************************************************)
\* the smaller and the larger of two integers
Min(a, b) == IF a <= b THEN a ELSE b
Max(a, b) == IF a >= b THEN a ELSE b

\* C1: every sprite ever created is in exactly one of the live grid and the
\* pool, never in both, never in neither, never twice in the pool, so the live
\* count plus the pooled count is the count of sprites created.
C1_EverySpriteLiveOrPooled ==
    /\ LiveSprites(tiles) \cap Range(_tilePool) = {}
    /\ LiveSprites(tiles) \cup Range(_tilePool) = 1..children
    /\ Cardinality(Range(_tilePool)) = Len(_tilePool)
    /\ Cardinality(LiveCoords(tiles)) + Len(_tilePool) = children

\* C2: every coordinate that holds a live sprite lies inside the rendered
\* rectangle: left <= x <= right and top <= y <= bottom.
C2_LiveInsideWindow ==
    \A k \in LiveCoords(tiles) :
        /\ _rendered.left <= k[1] /\ k[1] <= _rendered.right
        /\ _rendered.top <= k[2] /\ k[2] <= _rendered.bottom

\* C3: the rendered rectangle lies within the map: 0 <= x, 0 <= y,
\* x + width <= mapWidth and y + height <= mapHeight.
C3_WindowInsideMap ==
    /\ 0 <= _rendered.x
    /\ 0 <= _rendered.y
    /\ _rendered.x + _rendered.width <= MapW
    /\ _rendered.y + _rendered.height <= MapH

\* C4: the live grid is injective (no sprite is stored under two coordinates)
\* and no call stores a sprite over another sprite that is live at the
\* destination coordinate.
C4_GridInjectiveNoOverwrite ==
    /\ \A k1, k2 \in LiveCoords(tiles) : tiles[k1] = tiles[k2] => k1 = k2
    /\ ~overwrote

\* C5: every live sprite at <<x, y>> shows the texture of the tile id the
\* row-major map data holds for column x, row y of the map.
C5_TextureOfOwnCell ==
    \A k \in LiveCoords(tiles) :
        /\ 0 <= k[1] /\ k[1] < MapW
        /\ 0 <= k[2] /\ k[2] < MapH
        /\ sprites[tiles[k]].texture = getTileTexture(TileIdsData[k[1] + k[2] * MapW])

C7_ThresholdShifts ==
    [][(call'.op = "pan" /\ call'.a > 0 /\ call'.b = 0 /\ _panDelta.x >= 0) =>
        /\ shifts'.left = (_panDelta.x + call'.a) \div TileW
        /\ shifts'.right = 0
        /\ _panDelta'.x = (_panDelta.x + call'.a) % TileW
        /\ _rendered'.x = _rendered.x - shifts'.left - (IF _buffered.left THEN 0 ELSE 1)]_vars

\* pan(tileWidth + 1, 0) ran one threshold shift and left the accumulator at 1
C7_Witness ==
    /\ call.op = "pan" /\ call.a = TileW + 1 /\ call.b = 0
    /\ shifts.left = 1 /\ _panDelta.x = 1

\* C8: a renderTiles call that repeats the call before it (same arguments, same
\* camera position) leaves the pool size, the live coordinates, the rectangle,
\* the flags and the accumulator as they were, and creates no sprite.
C8_RenderTilesIdempotent ==
    [][(call'.op = "renderTiles" /\ repeat') =>
        /\ Len(_tilePool') = Len(_tilePool)
        /\ LiveCoords(tiles') = LiveCoords(tiles)
        /\ _rendered' = _rendered
        /\ _buffered' = _buffered
        /\ _panDelta' = _panDelta
        /\ children' = children]_vars

\* a renderTiles call was repeated with live and pooled sprites
C8_Witness ==
    /\ call.op = "renderTiles" /\ repeat
    /\ LiveCoords(tiles) # {} /\ Len(_tilePool) > 0

\* C9: renderTiles(startX, startY, numX, numY) leaves x = max(startX, 0),
\* y = max(startY, 0), width = min(numX, mapWidth - x) and
\* height = min(numY, mapHeight - y), neither of them negative.
C9_ClampedWindow ==
    call.op = "renderTiles" =>
        LET x == Max(call.a, 0)
            y == Max(call.b, 0)
        IN /\ _rendered.x = x
           /\ _rendered.y = y
           /\ _rendered.width = Min(call.c, MapW - x)
           /\ _rendered.height = Min(call.d, MapH - y)
           /\ _rendered.width >= 0
           /\ _rendered.height >= 0

\* C10: as long as renderTiles has not been called, pan leaves the rectangle,
\* the flags, the accumulator, the live grid and the pool as constructed.
C10_PanBeforeRenderIsNoOp ==
    ~everRendered =>
        /\ _rendered.x = 0 /\ _rendered.y = 0
        /\ _rendered.width = 0 /\ _rendered.height = 0
        /\ _buffered = [left |-> FALSE, right |-> FALSE, top |-> FALSE, bottom |-> FALSE]
        /\ _panDelta = [x |-> 0, y |-> 0]
        /\ tiles = <<>>
        /\ _tilePool = <<>>

C12_EmptyCellsHoldNoSprite ==
    /\ [](\A k \in LiveCoords(tiles) : getTileset(tileIds(k[1] + (k[2] * MapW))))
    /\ [][(call'.op = "pan" /\ ~overwrote') =>
             (LiveSprites(tiles) \cup Range(_tilePool))
                 \subseteq (LiveSprites(tiles') \cup Range(_tilePool'))]_vars

\* the first renderTiles leaves the pool empty: the pan after it has shifted a
\* sprite onto a coordinate without a tileset, and the sprite is in the pool
C12_Witness ==
    /\ calls = 2
    /\ everRendered
    /\ call.op = "pan"
    /\ ~overwrote
    /\ shifts # NoShifts
    /\ Len(_tilePool) > 0
    /\ \A i \in DOMAIN _tilePool : ~sprites[_tilePool[i]].visible

\* C13: when the tileset of a tile id has no texture for it, no visible live
\* sprite is bound with the missing texture (the call signals an error instead)
C13_NoSpriteWithoutTexture ==
    \A k \in LiveCoords(tiles) :
        ~(sprites[tiles[k]].visible /\ sprites[tiles[k]].texture = NoTexture)

\* C14: every sprite in the pool is hidden and has its physics disabled
C14_PooledHiddenNoPhysics ==
    \A i \in DOMAIN _tilePool :
        ~sprites[_tilePool[i]].visible /\ ~sprites[_tilePool[i]].physics

\* C15: a sprite has pointer callbacks, or is interactive, only while it is
\* live and the tile it is bound to resolves to interactive
C15_CallbacksOnlyWhileLiveInteractive ==
    \A t \in DOMAIN sprites :
        (sprites[t].handlers \/ sprites[t].interactive) =>
            \E k \in LiveCoords(tiles) :
                /\ tiles[k] = t
                /\ _getInteractive(TRUE, SetProperties,
                                   getTileProperties(tileIds(k[1] + (k[2] * MapW))),
                                   LayerProperties, MapProperties)

\* C16: the interactive flag is the truthiness of the flag of the first source
\* that defines one, in the order tile, tileset, layer, map, and false when no
\* source defines one; a tile that sets interactive to false wins over a tileset
\* that sets it to true
C16_FirstDefinedSourceWins ==
    (probe.op = "_getInteractive" /\ probe.out # "none") =>
        LET chain == <<probe.o>>
                     \o (IF probe.hasSet THEN <<probe.setProps>> ELSE <<>>)
                     \o <<probe.layerProps, probe.mapProps>>
            Defines(p) == p.interactive # "undefined" \/ p.interactiveTiles # "undefined"
            defining == {i \in DOMAIN chain : Defines(chain[i])}
            first == CHOOSE i \in defining : \A j \in defining : i <= j
        IN /\ defining = {} => probe.out = "false"
           /\ defining # {} =>
                 (probe.out = "true") <=>
                     ("true" \in {chain[first].interactive, chain[first].interactiveTiles})
           /\ (probe.o.interactive = "false" /\ probe.o.interactiveTiles = "undefined")
                 => probe.out = "false"

\* the flag was resolved for a tile that sets interactive to false under a
\* tileset that sets it to true
C16_Witness ==
    /\ probe.op = "_getInteractive"
    /\ probe.out = "false"
    /\ probe.hasSet
    /\ probe.o = [interactive |-> "false", interactiveTiles |-> "undefined"]
    /\ probe.setProps.interactive = "true"

\* C17: on the orthogonal map every live sprite at tile (tx, ty) is positioned
\* at (tx * tileWidth + offsetX, ty * tileHeight + offsetY); renderTiles leaves
\* live exactly the cells of its rectangle that have a tileset; and with a tile
\* size of 32 and no offset the four tiles (0,0), (1,0), (0,1), (1,1) are placed
\* at (0,0), (32,0), (0,32), (32,32)
C17_OrthogonalPosition ==
    /\ \A k \in LiveCoords(tiles) :
            sprites[tiles[k]].position =
                <<(k[1] * MapTileSize[1]) + TileOffset[1],
                  (k[2] * MapTileSize[2]) + TileOffset[2]>>
    /\ call.op = "renderTiles" =>
            LiveCoords(tiles) =
                {k \in (_rendered.left.._rendered.right) \X (_rendered.top.._rendered.bottom) :
                    getTileset(tileIds(k[1] + (k[2] * MapW)))}
    /\ \A k \in (0..1) \X (0..1) :
            TilePosition(FALSE, k[1], k[2], <<32, 32>>, <<32, 32>>, <<0, 0>>)
                = <<32 * k[1], 32 * k[2]>>

\* renderTiles has placed a sprite on every tile of the whole map but the empty
\* ones, each at its pixel position
C17_Witness ==
    /\ call.op = "renderTiles"
    /\ _rendered.width = MapW /\ _rendered.height = MapH
    /\ Cardinality(LiveCoords(tiles)) >= 3
    /\ \E k \in LiveCoords(tiles) :
            k[1] = 1 /\ k[2] = 1
            /\ sprites[tiles[k]].position = <<MapTileSize[1] + TileOffset[1],
                                              MapTileSize[2] + TileOffset[2]>>

\* the position of tile (1,0) was computed on the isometric map with tile size
\* (64,32), tileset tile size (64,32) and no offset
C18_Case ==
    /\ probe.op = "position"
    /\ probe.out # <<>>
    /\ probe.iso
    /\ probe.toTileX = 1 /\ probe.toTileY = 0
    /\ probe.tileSize = <<64, 32>> /\ probe.setTileSize = <<64, 32>>
    /\ probe.tileoffset = <<0, 0>>

\* C18 as stated: under isometric projection with tile size (64,32), tileset
\* tile size (64,32) and offset (0,0), tile (1,0) projects to pixel (64,16)
C18_ProjectsTo64_16 == C18_Case => probe.out = <<64, 16>>

\* C18 amended: under isometric projection a tile (tx, ty) projects to
\* ((tx - ty) * tileWidth / 2 + (tileWidth - tilesetTileWidth) + offsetX,
\*  (tx + ty) * tileHeight / 2 + (tileHeight - tilesetTileHeight) + offsetY),
\* so that with tile size (64,32), tileset tile size (64,32) and offset (0,0)
\* tile (1,0) projects to pixel (32,16)
C18_ProjectsTo32_16 ==
    /\ C18_Case => probe.out = <<32, 16>>
    /\ (probe.op = "position" /\ probe.out # <<>> /\ probe.iso) =>
          /\ 2 * probe.out[1] =
                ((probe.toTileX - probe.toTileY) * probe.tileSize[1])
                + 2 * (probe.tileSize[1] - probe.setTileSize[1] + probe.tileoffset[1])
          /\ 2 * probe.out[2] =
                ((probe.toTileX + probe.toTileY) * probe.tileSize[2])
                + 2 * (probe.tileSize[2] - probe.setTileSize[2] + probe.tileoffset[2])

C18_Witness == C18_Case /\ probe.out = <<32, 16>>

\* C19: a listener registered with once(type, l) runs exactly once, on the
\* first emit of the type that starts while it is registered: never twice,
\* once when such an emit has happened, and it is registered no longer then
C19_OnceRunsExactlyOnce ==
    \A k \in DOMAIN wrappers :
        /\ wrappers[k].fired <= 1
        /\ k \in due => wrappers[k].fired = 1
        /\ k \in due => 0 - k \notin Range(Ids(Registered(_events[wrappers[k].type])))

RECURSIVE RunsOf(_, _)
\* the functions that the emit numbered n ran, in the order it ran them
RunsOf(log, n) ==
    IF log = <<>> THEN <<>>
    ELSE (IF Head(log).emit = n THEN <<Head(log).fn>> ELSE <<>>) \o RunsOf(Tail(log), n)

\* C20: every emit, the one of the host and the ones nested in it, runs the
\* functions registered for the type when it started, once each and in their
\* order, whatever the listeners remove meanwhile; it returns false when none is
\* registered and the emitter otherwise; and the order is the one of
\* registration: on(type, l) puts l after the functions registered before
C20_EmitRunsSnapshot ==
    /\ [](\A n \in DOMAIN emitted.starts :
            /\ RunsOf(emitted.log, n) = emitted.starts[n].registered
            /\ (emitted.starts[n].ret = "false") <=> (emitted.starts[n].registered = <<>>))
    /\ [][ecall'.op = "on" =>
            Ids(Registered(_events'[ecall'.type]))
                = Append(Ids(Registered(_events[ecall'.type])), ecall'.listener)]_vars

\* an emit ran listener 3 and then listener 1, which listener 3 had removed
\* meanwhile: listener 1 is registered no longer
C20_Witness ==
    /\ ecall.op = "emit"
    /\ emitted.starts[1].registered = <<3, 1>>
    /\ RunsOf(emitted.log, 1) = <<3, 1>>
    /\ Ids(Registered(_events[ecall.type])) = <<3>>

\* the functions of a sequence that are a registration of the listener l: l
\* itself, or a function of once(type, l)
RegistrationsOf(q, l) == {i \in DOMAIN q : q[i].id = l \/ q[i].listener = l}

\* the sequence q without its i-th element
Without(q, i) == SubSeq(q, 1, i - 1) \o SubSeq(q, i + 1, Len(q))

\* C21: off(type, l) removes exactly one registration of l for the type, made
\* with on or with once, and keeps the other functions of the type in their
\* order; it changes nothing when l is not registered; it leaves the other types
\* as they are; and when no registration of l is left after it, the emit(type)
\* that follows runs l neither directly nor through a function of once
C21_OffRemovesOneRegistration ==
    /\ [][ecall'.op = "off" =>
            LET before == Registered(_events[ecall'.type])
                after == Registered(_events'[ecall'.type])
                regs == RegistrationsOf(before, ecall'.listener)
            IN /\ regs = {} => _events' = _events
               /\ regs # {} => \E i \in regs : after = Without(before, i)
               /\ \A other \in Types \ {ecall'.type} : _events'[other] = _events[other]]_vars
    /\ [][(ecall.op = "off" /\ ecall'.op = "emit" /\ ecall'.type = ecall.type
            /\ RegistrationsOf(Registered(_events[ecall.type]), ecall.listener) = {}) =>
            \A j \in DOMAIN emitted'.log :
                /\ emitted'.log[j].fn # ecall.listener
                /\ emitted'.log[j].fn < 0 =>
                      wrappers[0 - emitted'.log[j].fn].listener # ecall.listener]_vars

\* off("click", l) removed one of two registrations of a listener, one made
\* with once, while "move" had a listener
C21_Witness ==
    /\ ecall.op = "off"
    /\ ecall.type = "click"
    /\ Len(wrappers) > 0
    /\ wrappers[1].listener = ecall.listener
    /\ Cardinality(RegistrationsOf(Registered(_events["click"]), ecall.listener)) = 1
    /\ Registered(_events["move"]) # <<>>

\* C22: a pan call turns at most one buffered flag from false to true: the
\* first, in the order left, right, top, bottom, whose edge is unbuffered and
\* whose direction the pan has (dx > 0, dx < 0, dy > 0, dy < 0); and no pan turns
\* a flag from true to false
C22_OneBufferedFlagPerPan ==
    [][call'.op = "pan" =>
        LET dx == call'.a
            dy == call'.b
            first == IF dx > 0 /\ ~_buffered.left THEN {"left"}
                     ELSE IF dx < 0 /\ ~_buffered.right THEN {"right"}
                     ELSE IF dy > 0 /\ ~_buffered.top THEN {"top"}
                     ELSE IF dy < 0 /\ ~_buffered.bottom THEN {"bottom"}
                     ELSE {}
        IN /\ {f \in DOMAIN _buffered : ~_buffered[f] /\ _buffered'[f]} = first
           /\ \A f \in DOMAIN _buffered : _buffered[f] => _buffered'[f]]_vars

\* a diagonal pan, the first call after renderTiles, has buffered the right
\* edge and left the bottom edge unbuffered
C22_Witness ==
    /\ calls = 2
    /\ everRendered
    /\ call.op = "pan" /\ call.a < 0 /\ call.b < 0
    /\ _buffered = [left |-> FALSE, right |-> TRUE, top |-> FALSE, bottom |-> FALSE]

\* C23: renderTiles drains the grid before it binds a sprite: after its
\* clearTiles no sprite is live and every sprite ever created is in the pool;
\* when it returns every sprite is live or pooled; and it creates no sprite when
\* the new rectangle has no more sprites than there were already
C23_RenderTilesDrainsFirst ==
    [][call'.op = "renderTiles" =>
        LET s1 == clearTiles(Layer)
        IN /\ LiveCoords(s1.tiles) = {}
           /\ Range(s1.pool) = 1..s1.children
           /\ LiveSprites(tiles') \cup Range(_tilePool') = 1..children'
           /\ Cardinality(LiveCoords(tiles')) <= children => children' = children]_vars

\* C24: the sprites ever created are never more than the largest number of
\* sprites that were live at the same time so far, and no sprite is destroyed:
\* the created sprites only grow in number and each keeps its record
C24_CreatedBoundedByPeakLive ==
    /\ [](children <= peakLive)
    /\ [][children' >= children /\ DOMAIN sprites \subseteq DOMAIN sprites']_vars

\* C25: a live sprite has its physics enabled exactly when the tile id at its
\* coordinate is collidable
C25_PhysicsFollowsTile ==
    \A k \in LiveCoords(tiles) :
        sprites[tiles[k]].physics
            = getTileProperties(tileIds(k[1] + (k[2] * MapW))).isCollidable

\* C26: when a collaborator raises while moveTileSprite binds a sprite, the
\* sprite that was being bound is afterwards in exactly one of the grid and the
\* pool, and a grid that was inside the rectangle is still inside it
C26_RaiseKeepsSpriteLiveOrPooled ==
    [][call'.op = "panRaises" =>
        LET tile == call'.d
            Inside(t, r) == \A k \in LiveCoords(t) :
                                /\ k[1] >= r.left /\ k[1] <= r.right
                                /\ k[2] >= r.top /\ k[2] <= r.bottom
        IN /\ tile \in 1..children' =>
                /\ (tile \in LiveSprites(tiles')) # (tile \in Range(_tilePool'))
                /\ Cardinality({k \in LiveCoords(tiles') : tiles'[k] = tile})
                     + Cardinality({j \in DOMAIN _tilePool' : _tilePool'[j] = tile}) = 1
           /\ Inside(tiles, _rendered) => Inside(tiles', _rendered')]_vars

\* C27: every pan returns, after at most |dx| / tileWidth + 1 iterations of the
\* horizontal threshold loops and |dy| / tileHeight + 1 of the vertical ones,
\* with the accumulator strictly within one tile on both axes
C27_PanEndsWithinOneTile ==
    [][call'.op = "pan" =>
        LET Abs(v) == IF v >= 0 THEN v ELSE 0 - v
        IN /\ 0 - TileW < _panDelta'.x /\ _panDelta'.x < TileW
           /\ 0 - TileH < _panDelta'.y /\ _panDelta'.y < TileH
           /\ shifts'.left + shifts'.right <= (Abs(call'.a) \div TileW) + 1
           /\ shifts'.up + shifts'.down <= (Abs(call'.b) \div TileH) + 1]_vars

\* pan(-(tileWidth + 1), 0) ran the right threshold loop twice, from an
\* accumulator of -(tileWidth - 1), and left the accumulator at 0
C27_Witness ==
    /\ call.op = "pan" /\ call.a = 0 - (TileW + 1)
    /\ shifts.right = 2 /\ _panDelta.x = 0

\* C28, as stated: after every renderTiles the four flags are false and the
\* accumulator is the camera position modulo the tile size, a value from 0 to
\* the tile size less one, for positive and for negative camera positions
C28_AccumulatorIsModulo ==
    [][call'.op = "renderTiles" =>
        /\ \A f \in DOMAIN _buffered' : ~_buffered'[f]
        /\ _panDelta'.x = call'.posX % TileW
        /\ _panDelta'.y = call'.posY % TileH]_vars

\* C28, amended: after every renderTiles the four flags are false and the
\* accumulator is the remainder of the division of the camera position by the
\* tile size that truncates towards zero: its magnitude is |camera| modulo the
\* tile size and its sign is the sign of the camera position
C28_AccumulatorIsRemainder ==
    [][call'.op = "renderTiles" =>
        LET Abs(v) == IF v >= 0 THEN v ELSE 0 - v
            Remainder(acc, pos, size) ==
                /\ Abs(acc) = Abs(pos) % size
                /\ pos >= 0 => acc >= 0
                /\ pos <= 0 => acc <= 0
        IN /\ \A f \in DOMAIN _buffered' : ~_buffered'[f]
           /\ Remainder(_panDelta'.x, call'.posX, TileW)
           /\ Remainder(_panDelta'.y, call'.posY, TileH)]_vars

\* renderTiles ran with the camera at a negative x that is no multiple of the
\* tile width, and left a negative accumulator
C28_Witness ==
    /\ call.op = "renderTiles" /\ call.posX < 0 /\ call.posX % TileW # 0
    /\ _panDelta.x < 0

\* C29: between two renderTiles calls no pixel of the pan deltas is lost or
\* counted twice: with x0 the rectangle's x and a0 the accumulator that the last
\* renderTiles left, S the sum of the dx of the pan calls since, and bL = 1 when
\* the left edge is buffered, tileWidth * (x0 - x - bL) + panX = a0 + S; the
\* same on y with the top edge
C29_PanDisplacementConserved ==
    everRendered =>
        LET bL == IF _buffered.left THEN 1 ELSE 0
            bT == IF _buffered.top THEN 1 ELSE 0
        IN /\ TileW * (run.x0 - _rendered.x - bL) + _panDelta.x = run.sx
           /\ TileH * (run.y0 - _rendered.y - bT) + _panDelta.y = run.sy

\* after a renderTiles, pan calls have buffered the left and the right edge and
\* the last of them shifted the rectangle
C29_Witness ==
    /\ everRendered /\ call.op = "pan" /\ calls >= 3
    /\ _buffered.left /\ _buffered.right
    /\ shifts.left + shifts.right >= 1

\* C30, as stated: with the edges concerned buffered, pan(dx, dy) followed by
\* pan(-dx, -dy) leaves the rectangle, the accumulator and the live coordinates
\* as they were before the two calls
C30_PanBackRestoresLayer ==
    [][call'.op = "panBack" =>
        /\ _rendered' = origin.rendered
        /\ _panDelta' = origin.panDelta
        /\ LiveCoords(tiles') = origin.live]_vars

\* C30, amended: with the edges concerned buffered, pan(dx, dy) followed by
\* pan(-dx, -dy) leaves the flags, the size of the rectangle and the position
\* in pixels (tile size * rectangle origin - accumulator) as they were, and the
\* accumulator within one tile of its value before; the rectangle, the
\* accumulator and the live coordinates are as before when the first of the two
\* calls ran no threshold loop
C30_PanBackRestoresPosition ==
    [][call'.op = "panBack" =>
        /\ _buffered' = origin.buffered
        /\ _rendered'.width = origin.rendered.width
        /\ _rendered'.height = origin.rendered.height
        /\ (TileW * _rendered'.x) - _panDelta'.x
             = (TileW * origin.rendered.x) - origin.panDelta.x
        /\ (TileH * _rendered'.y) - _panDelta'.y
             = (TileH * origin.rendered.y) - origin.panDelta.y
        /\ _panDelta'.x \in {origin.panDelta.x - TileW, origin.panDelta.x,
                              origin.panDelta.x + TileW}
        /\ shifts = NoShifts =>
              /\ _rendered' = origin.rendered
              /\ _panDelta' = origin.panDelta
              /\ LiveCoords(tiles') = origin.live]_vars

\* a pan by an offset that shifted the rectangle has been panned back, and the
\* rectangle is one tile from where it was
C30_Witness ==
    /\ call.op = "panBack" /\ everRendered
    /\ _rendered.x # origin.rendered.x
    /\ origin.rendered.width > 0 /\ origin.rendered.height > 0

\* C31: whenever the Shake is done, and right after a start, the offsets it has
\* passed to parent.pan since it was at rest sum to (0, 0)
C31_ShakeLeavesNoDisplacement ==
    (effect.done \/ fxcall.op = "start") => effect.panned = <<0, 0>>

\* the sequence q holds no value twice
C32_NoValueTwice(q) == \A i, j \in 1..Len(q) : q[i] = q[j] => i = j

\* C32: the pool holds no sprite twice and no visible sprite, and once update has
\* returned every character of the text is shown by its own visible sprite
C32_DistinctSpritePerCharacter ==
    /\ C32_NoValueTwice(font.sprites)
    /\ \A i \in 1..Len(font.sprites) : font.sprites[i] \notin font.visible
    /\ ~font.dirty =>
          /\ Len(font.shown) = Len(Characters(font.text))
          /\ C32_NoValueTwice(font.shown)
          /\ \A i \in 1..Len(font.shown) :
                 /\ font.shown[i] \in font.visible
                 /\ font.texture[font.shown[i]] = Mapped(Characters(font.text)[i])

\* C33: in a game that had its '_default' state registered, '_default' is still
\* registered and the active state is a registered state, whatever addState,
\* removeState and enableState calls were made
C33_DefaultRegisteredActiveRegistered ==
    game.hasStates =>
        /\ "_default" \in game.states
        /\ game.activeState \in game.states

====
